---- MODULE Spec2Model ----
(***************************************************************************)
(* RESToverRDP: a file-mediated request/response broker.                   *)
(*                                                                         *)
(*   submitter  src/unnamed/part_000 (local-rest-proxy, marker-aware):     *)
(*              app.all('*') writes requests/<id>.json and polls for       *)
(*              responses/<id>.json + responses/<id>.json.done             *)
(*   worker     src/rdp-rest-proxy/proxy.js: setInterval tick ->           *)
(*              processRequests -> one async task per listed request file  *)
(*                                                                         *)
(* The shared store is the only state the two roles share.  Every await of *)
(* the source is a point where the other role (or another task) may run,   *)
(* so every await that touches the store is a step of its own.             *)
(* fs.writeFile of an existing or new file is not atomic: it truncates and *)
(* then writes, so a write is two steps and a reader in between sees an    *)
(* unparseable prefix.                                                     *)
(***************************************************************************)
EXTENDS Integers, Sequences, FiniteSets, TLC

(***************************************************************************)
(* Bounds of the model.  The source's values are given in the comments;    *)
(* the model runs the same code with smaller numbers.                      *)
(***************************************************************************)
NumIds == 3                  \* correlation ids (uuidv4 values) in play
MaxGen == 2                  \* tasks of one worker that may overlap on one file
MAX_ATTEMPTS == 3            \* part_000:165 (300 in the source)
BATCH_SIZE == 2              \* rdp-rest-proxy/proxy.js:13 (20 in the source)
MAX_CONCURRENT_REQUESTS == 2 \* rdp-rest-proxy/proxy.js:14 (40 in the source)
API_MAX_ATTEMPTS == 2        \* local-rest-proxy/proxy.js:320 (60 in the source)
HistoryLong == 3             \* MAX_PROCESSED_FILES where no name is evicted
HistoryShort == 1            \* MAX_PROCESSED_FILES where names are evicted

(* Program constants kept at the source's values. *)
MAX_RETRIES == 3
POLL_INTERVAL == 100
BACKOFF_UNIT == 1000
HTTP_OK == 200
HTTP_NO_CONTENT == 204
HTTP_UNAVAILABLE == 503
HTTP_INTERNAL_ERROR == 500
HTTP_GATEWAY_TIMEOUT == 504

Ids == 1..NumIds
Gens == 1..MaxGen

(***************************************************************************)
(* JavaScript values and JSON.                                             *)
(* A body is one of a few JS values; Falsy is JS truthiness, OrDefault is  *)
(* the `a || b` of part_000:261-263.                                       *)
(***************************************************************************)
FalsyBodies == {"undefined", "null", "false", "zero", "emptystr"}

Falsy(v) == v \in FalsyBodies

FalsyNum(n) == n = 0

EmptyObject == "emptyobj"

NoHeaders == "emptyobj"

(* File contents.  state: absent (no such file), partial (truncated, being *)
(* written), malformed (not JSON), full (a complete JSON text).            *)
NoRequestFile == [state |-> "absent", id |-> 0, status |-> "none"]

PartialRequestFile == [state |-> "partial", id |-> 0, status |-> "none"]

MalformedRequestFile == [state |-> "malformed", id |-> 0, status |-> "none"]

NoResponseFile ==
    [state |-> "absent", statusCode |-> 0, headers |-> "absent", body |-> "absent",
     message |-> "absent"]

PartialResponseFile ==
    [state |-> "partial", statusCode |-> 0, headers |-> "absent", body |-> "absent",
     message |-> "absent"]

(* JSON.stringify(obj, null, 2): a key whose value is undefined is left    *)
(* out of the text ("absent"); every other value is written.               *)
JsonKey(v) == IF v = "undefined" THEN "absent" ELSE v

JSON_stringify_request(obj) ==
    [state |-> "full", id |-> obj.id, status |-> obj.status]

JSON_stringify_response(obj) ==
    [state |-> "full", statusCode |-> obj.statusCode, headers |-> JsonKey(obj.headers),
     body |-> JsonKey(obj.body), message |-> JsonKey(obj.message)]

(* JSON.parse throws on anything but a complete JSON text; a key missing   *)
(* from the text reads as undefined.                                       *)
JsonParses(text) == text.state = "full"

JsonValue(k) == IF k = "absent" THEN "undefined" ELSE k

JSON_parse_request(text) == [id |-> text.id, status |-> text.status]

JSON_parse_response(text) ==
    [statusCode |-> text.statusCode, headers |-> JsonValue(text.headers),
     body |-> JsonValue(text.body), message |-> JsonValue(text.message)]

NoResponse ==
    [statusCode |-> 0, headers |-> "undefined", body |-> "undefined",
     message |-> "undefined"]

(***************************************************************************)
(* The target service (axios call of rdp-rest-proxy/proxy.js:168-179).     *)
(* validateStatus: () => true, so every HTTP status resolves the promise;  *)
(* only a transport failure rejects it, with an error message.             *)
(***************************************************************************)
OkResponse ==
    [statusCode |-> HTTP_OK, headers |-> "ct_json", body |-> "obj", message |-> "undefined"]

TargetResponses ==
    { OkResponse,
      [statusCode |-> HTTP_NO_CONTENT, headers |-> "h_none", body |-> "emptystr",
       message |-> "undefined"],
      [statusCode |-> HTTP_UNAVAILABLE, headers |-> "ct_text", body |-> "str",
       message |-> "undefined"] }

TransportErrors == {"ECONNREFUSED", "ETIMEDOUT"}

(***************************************************************************)
(* State.                                                                  *)
(***************************************************************************)
VARIABLES
    scenario,       \* what a specification fixes: see below
    polling,        \* worker: startPolling has run initializeDirs
    reqFile,        \* requests/<id>.json
    reqLock,        \* requests/<id>.json.lock
    respFile,       \* responses/<id>.json
    respLock,       \* responses/<id>.json.lock
    doneFile,       \* responses/<id>.json.done
    sub,            \* submitter: one app.all('*') handler per id
    processedFiles, \* worker: the Set of line 18, in insertion order
    isProcessing,   \* worker: flag of startPolling
    batches,        \* worker: batches of the running tick not yet started
    pending,        \* worker: tasks the running Promise.all still waits for
    semaphore,      \* worker: the Semaphore of the running batch
    task,           \* worker: the per-request async tasks
    hist,           \* history: what has happened, per id
    REQUESTS_FILE,  \* single-file protocol: requests.json
    RESPONSES_FILE, \* single-file protocol: responses.json
    api,            \* single-file protocol: one app.all('/api/*') handler per id
    rdp             \* single-file protocol: the worker's tick

(* The scenario of a specification, fixed by its Init:                     *)
(*   clients    ids of the client requests that arrive at the submitter    *)
(*   stray      ids under which an unparseable request record appears      *)
(*   responses  the HTTP responses the target may give                     *)
(*   errors     the transport errors a target call may fail with           *)
(*   paths      the paths of the client requests                           *)
(*   ioErrors   whether a write of a lock file, or the worker's write of   *)
(*              the completed status, may fail with an I/O error           *)
(*   MAX_PROCESSED_FILES  rdp-rest-proxy/proxy.js:19 (1000 in the source)  *)
clients == scenario.clients

stray == scenario.stray

MAX_PROCESSED_FILES == scenario.MAX_PROCESSED_FILES

store == <<reqFile, reqLock, respFile, respLock, doneFile>>

singleVars == <<REQUESTS_FILE, RESPONSES_FILE, api, rdp>>

(* What no step of the marker protocol's handlers and tasks changes. *)
fixed == <<scenario, polling, singleVars>>

workerVars == <<processedFiles, isProcessing, batches, pending, semaphore, task>>

vars == <<scenario, polling, reqFile, reqLock, respFile, respLock, doneFile, sub,
          processedFiles, isProcessing, batches, pending, semaphore, task, hist,
          REQUESTS_FILE, RESPONSES_FILE, api, rdp>>

NoReply ==
    [kind |-> "none", status |-> 0, headers |-> "undefined", body |-> "undefined",
     elapsed |-> 0]

IdleHandler ==
    [pc |-> "idle", path |-> "none", attempts |-> 0, polls |-> 0, elapsed |-> 0,
     found |-> FALSE,
     response |-> NoResponse, doneExists |-> FALSE, responseExists |-> FALSE,
     reply |-> NoReply, replies |-> 0, unlinks |-> {}]

(* History of an id.                                                       *)
(*   listed, started   a tick listed the name / started a task for it      *)
(*   submitted         the handler's write of the request record is done   *)
(*   claimed           a task read the record with status pending          *)
(*   dispatches        tasks that called the target for the id (up to 2)   *)
(*   written           the response texts written under the id             *)
(*   marked            the completion marker was created                   *)
(*   failed            the catch wrote its response under the id           *)
(*   statuses          the statuses the worker wrote to the request record *)
(*   inTime            the marker was created while a poll was left        *)
(*   deleted           the records the handler's cleanup has unlinked      *)
(*   lockFailed        lockFile(requestFile) returned false for the id     *)
(*   enoent            removals that found their file already gone         *)
(*   readUnmarked      a response record was read while no marker existed  *)
NoHistory ==
    [listed |-> FALSE, started |-> FALSE, submitted |-> FALSE, claimed |-> FALSE,
     dispatches |-> 0, written |-> {}, marked |-> FALSE, failed |-> FALSE,
     statuses |-> {}, inTime |-> FALSE, deleted |-> {}, lockFailed |-> FALSE,
     enoent |-> {}, readUnmarked |-> FALSE]

(***************************************************************************)
(* Submitter: src/unnamed/part_000.                                        *)
(***************************************************************************)

(* lockFile of part_000:69-95: fs.writeFile(lockFile, pid, {flag: 'wx'})   *)
(* is an exclusive create; EEXIST gives false.  The result is the new      *)
(* content of the lock file and whether the call returned true.            *)
Local_lockFile(lock) ==
    IF lock = "absent" THEN [ok |-> TRUE, lock |-> "pid"]
    ELSE [ok |-> FALSE, lock |-> lock]

(* fs.unlink of a lock path: the file is gone afterwards, whoever created  *)
(* it; unlink of a missing file fails with ENOENT.                         *)
fs_unlink(lock) ==
    [lock |-> "absent", error |-> IF lock = "absent" THEN "ENOENT" ELSE "none"]

Local_unlockFileThrows(lock) ==
    LET r == fs_unlink(lock)
    IN  [lock |-> r.lock, result |-> r.error = "none", thrown |-> r.error]

(* unlockFile of part_000:97-109: every error of fs.unlink is caught;      *)
(* ENOENT gives true like success, any other error false.                  *)
Local_unlockFile(lock) ==
    LET r == fs_unlink(lock)
    IN  [lock |-> r.lock, result |-> r.error \in {"none", "ENOENT"}, thrown |-> "none"]

Worker_unlockFileKeeps(lock) == [lock |-> lock, result |-> FALSE, thrown |-> "none"]

(* unlockFile of rdp-rest-proxy/proxy.js:54-62: every error of fs.unlink   *)
(* is caught and gives false.                                              *)
Worker_unlockFile(lock) ==
    LET r == fs_unlink(lock)
    IN  [lock |-> r.lock, result |-> r.error = "none", thrown |-> "none"]

(* fs.unlink(path).catch(() => {}) of part_000:285-287 on a record: the    *)
(* record is gone afterwards and the error of a missing file is dropped.   *)
Unlink(file, none) == [file |-> none, thrown |-> "none"]

(* Express routing, part_000:129 and 310: the routes in the order of their *)
(* registration.  A request runs the handler of the first route that       *)
(* matches its method and path; the handlers here never call next().       *)
Routes ==
    << [method |-> "ALL", path |-> "*", handler |-> "proxy"],
       [method |-> "GET", path |-> "/health", handler |-> "health"] >>

RouteMatches(route, method, path) ==
    /\ route.method \in {"ALL", method}
    /\ route.path \in {"*", path}

Dispatch(method, path) ==
    LET hits == {k \in 1..Len(Routes) : RouteMatches(Routes[k], method, path)}
    IN  IF hits = {} THEN "notfound"
        ELSE Routes[CHOOSE k \in hits : \A j \in hits : k <= j].handler

(* part_000:310-312: the reply of the health route. *)
HealthReply ==
    [kind |-> "health", status |-> HTTP_OK, headers |-> "undefined", body |-> "status_ok",
     elapsed |-> 0]

(* part_000:129-155 and 310-312: a GET request arrives and is routed.  The *)
(* proxy handler takes a fresh id and starts writing the request record:   *)
(* the file exists, truncated, from this step on.  The health handler      *)
(* answers at once.                                                        *)
Receive(i) ==
    /\ i \in clients
    /\ sub[i].pc = "idle"
    /\ \E p \in scenario.paths :
         LET handler == Dispatch("GET", p)
         IN  IF handler = "proxy"
             THEN /\ reqFile' = [reqFile EXCEPT ![i] = PartialRequestFile]
                  /\ sub' = [sub EXCEPT ![i].pc = "write", ![i].path = p]
             ELSE /\ reqFile' = reqFile
                  /\ sub' = [sub EXCEPT ![i].pc = "done", ![i].path = p,
                                        ![i].replies = 1, ![i].reply = HealthReply]
    /\ UNCHANGED <<fixed, reqLock, respFile, respLock, doneFile, workerVars, hist>>

(* part_000:143-167: the write of the request record completes. *)
WriteRequest(i) ==
    /\ sub[i].pc = "write"
    /\ reqFile' = [reqFile EXCEPT ![i] =
                      JSON_stringify_request([id |-> i, status |-> "pending"])]
    /\ sub' = [sub EXCEPT ![i].pc = "lock"]
    /\ hist' = [hist EXCEPT ![i].submitted = TRUE]
    /\ UNCHANGED <<fixed, reqLock, respFile, respLock, doneFile, workerVars>>

SleepOneMore(h) ==
    LET a == h.attempts + 1
        e == h.elapsed + POLL_INTERVAL
    IN  IF a <= MAX_ATTEMPTS
        THEN [h EXCEPT !.pc = "lock", !.attempts = a, !.elapsed = e]
        ELSE [h EXCEPT !.pc = "done", !.attempts = a, !.elapsed = e,
                       !.replies = h.replies + 1,
                       !.reply = [kind |-> "timeout", status |-> HTTP_GATEWAY_TIMEOUT,
                                  headers |-> "undefined", body |-> "Gateway Timeout",
                                  elapsed |-> e]]

SleepSilent(h) ==
    LET a == h.attempts + 1
        e == h.elapsed + POLL_INTERVAL
    IN  IF a < MAX_ATTEMPTS
        THEN [h EXCEPT !.pc = "lock", !.attempts = a, !.elapsed = e]
        ELSE [h EXCEPT !.pc = "done", !.attempts = a, !.elapsed = e]

(* part_000:224-250: no response in this iteration: sleep POLL_INTERVAL,   *)
(* attempts++, and when the loop condition fails answer 504 at once (no    *)
(* await lies between the timer and res.status(504)).                      *)
Sleep(h) ==
    LET a == h.attempts + 1
        e == h.elapsed + POLL_INTERVAL
    IN  IF a < MAX_ATTEMPTS
        THEN [h EXCEPT !.pc = "lock", !.attempts = a, !.elapsed = e]
        ELSE [h EXCEPT !.pc = "done", !.attempts = a, !.elapsed = e,
                       !.replies = h.replies + 1,
                       !.reply = [kind |-> "timeout", status |-> HTTP_GATEWAY_TIMEOUT,
                                  headers |-> "undefined", body |-> "Gateway Timeout",
                                  elapsed |-> e]]

(* part_000:168-171: one iteration of the wait loop starts with lockFile. *)
PollLock(i) ==
    /\ sub[i].pc = "lock"
    /\ LET r == Local_lockFile(respLock[i])
           h == [sub[i] EXCEPT !.polls = sub[i].polls + 1, !.doneExists = FALSE,
                               !.responseExists = FALSE]
       IN  /\ respLock' = [respLock EXCEPT ![i] = r.lock]
           /\ sub' = [sub EXCEPT ![i] = IF r.ok THEN [h EXCEPT !.pc = "check"] ELSE Sleep(h)]
    /\ UNCHANGED <<fixed, reqFile, reqLock, respFile, doneFile, workerVars, hist>>

ResponseReadyNoMarker(doneExists, responseExists) == responseExists

(* The condition of part_000:180 under which the response is read. *)
ResponseReady(doneExists, responseExists) == doneExists /\ responseExists

(* part_000:173-180, 203-209: fs.access of the marker and of the record. *)
PollCheck(i) ==
    /\ sub[i].pc = "check"
    /\ LET d == doneFile[i]
           r == respFile[i].state # "absent"
       IN  sub' = [sub EXCEPT ![i].doneExists = d, ![i].responseExists = r,
                              ![i].pc = IF ResponseReady(d, r) THEN "read" ELSE "unlock"]
    /\ UNCHANGED <<fixed, store, workerVars, hist>>

(* part_000:182-202: readFile and JSON.parse; a parse error (or ENOENT)    *)
(* leaves response null and the iteration goes on to the finally.          *)
PollRead(i) ==
    /\ sub[i].pc = "read"
    /\ sub' = [sub EXCEPT ![i] =
                 IF JsonParses(respFile[i])
                 THEN [@ EXCEPT !.pc = "unlock", !.found = TRUE,
                                !.response = JSON_parse_response(respFile[i])]
                 ELSE [@ EXCEPT !.pc = "unlock"]]
    /\ UNCHANGED <<fixed, store, workerVars, hist>>

(* part_000:261-263: what is sent for a parsed response record. *)
ReplyOf(response) ==
    [kind |-> "response",
     status |-> IF FalsyNum(response.statusCode) THEN HTTP_OK ELSE response.statusCode,
     headers |-> IF Falsy(response.headers) THEN EmptyObject ELSE response.headers,
     body |-> IF Falsy(response.body) THEN EmptyObject ELSE response.body,
     elapsed |-> 0]

(* part_000:298-302: the reply of the handler's outer catch. *)
ErrorReply(message) ==
    [kind |-> "error", status |-> HTTP_INTERNAL_ERROR, headers |-> "undefined",
     body |-> message, elapsed |-> 0]

(* part_000:210-212, then 224-236 (no response) or 252-288 (response: the  *)
(* reply is sent and the three unlinks are issued together).  An error     *)
(* thrown by unlockFile in the finally would leave the loop for the outer  *)
(* catch of 298-302.                                                       *)
PollUnlock(i) ==
    /\ sub[i].pc = "unlock"
    /\ LET u == Local_unlockFile(respLock[i])
       IN  /\ respLock' = [respLock EXCEPT ![i] = u.lock]
           /\ sub' = [sub EXCEPT ![i] =
                        IF u.thrown # "none"
                        THEN [@ EXCEPT !.pc = "done", !.reply = ErrorReply(u.thrown),
                                       !.replies = sub[i].replies + 1]
                        ELSE IF sub[i].found
                        THEN [@ EXCEPT !.pc = "cleanup", !.reply = ReplyOf(sub[i].response),
                                       !.replies = sub[i].replies + 1,
                                       !.unlinks = {"response", "done", "request"}]
                        ELSE Sleep(sub[i])]
           /\ hist' = [hist EXCEPT ![i].enoent =
                         IF respLock[i] = "absent" THEN @ \cup {"responseLock"} ELSE @]
    /\ UNCHANGED <<fixed, reqFile, reqLock, respFile, doneFile, workerVars>>

(* part_000:280-296: one of the three unlinks of the cleanup completes;   *)
(* the handler holds no lock here.  Whatever an unlink throws is caught    *)
(* (285-287, 291-296) and the reply is out already.                        *)
Cleanup(i) ==
    /\ sub[i].pc = "cleanup"
    /\ \E f \in sub[i].unlinks :
         LET gone == \/ f = "response" /\ respFile[i].state = "absent"
                     \/ f = "done" /\ ~doneFile[i]
                     \/ f = "request" /\ reqFile[i].state = "absent"
         IN  /\ sub' = [sub EXCEPT ![i].unlinks = @ \ {f},
                                   ![i].pc = IF sub[i].unlinks = {f} THEN "done"
                                             ELSE "cleanup"]
             /\ respFile' = IF f = "response"
                            THEN [respFile EXCEPT ![i] = Unlink(@, NoResponseFile).file]
                            ELSE respFile
             /\ doneFile' = IF f = "done" THEN [doneFile EXCEPT ![i] = FALSE] ELSE doneFile
             /\ reqFile' = IF f = "request"
                           THEN [reqFile EXCEPT ![i] = Unlink(@, NoRequestFile).file]
                           ELSE reqFile
             /\ hist' = [hist EXCEPT ![i].deleted = @ \cup {f},
                                     ![i].enoent = IF gone THEN @ \cup {f} ELSE @]
    /\ UNCHANGED <<fixed, reqLock, respLock, workerVars>>

Submitter(i) ==
    \/ Receive(i)
    \/ WriteRequest(i)
    \/ PollLock(i)
    \/ PollCheck(i)
    \/ PollRead(i)
    \/ PollUnlock(i)
    \/ Cleanup(i)

(***************************************************************************)
(* Worker: src/rdp-rest-proxy/proxy.js.                                    *)
(***************************************************************************)
TaskIds == Ids \X Gens

FreeTask ==
    [pc |-> "free", rid |-> 0, calls |-> 0, retries |-> 0, lastError |-> "none",
     delays |-> <<>>,
     response |-> NoResponse, error |-> "none", rejected |-> FALSE, cur |-> FALSE]

(* lockFile of rdp-rest-proxy/proxy.js:44-52: fs.writeFile(lockPath, '')   *)
(* with the default flag 'w' creates the file or truncates an existing     *)
(* one; it fails on an I/O error only, never because the file exists.      *)
(* fails: the write itself fails (an I/O error of the share); the lock     *)
(* file is then as it was.                                                 *)
Worker_lockFile(lock, fails) ==
    IF fails THEN [ok |-> FALSE, lock |-> lock] ELSE [ok |-> TRUE, lock |-> "empty"]

(* readdir lists the request records that exist, complete or not; the      *)
(* listing order is the store's, taken here as ascending by name.          *)
RECURSIVE Ascending(_)
Ascending(S) ==
    IF S = {} THEN <<>>
    ELSE LET m == CHOOSE x \in S : \A y \in S : x <= y
         IN  <<m>> \o Ascending(S \ {m})

Range(s) == {s[k] : k \in 1..Len(s)}

(* rdp-rest-proxy/proxy.js:100-107 *)
NewFiles(files, processed) == Ascending(files \ Range(processed))

RememberNewestDropped(processed, newFiles) ==
    LET all == processed \o newFiles
    IN  IF Len(all) > MAX_PROCESSED_FILES
        THEN SubSeq(all, 1, MAX_PROCESSED_FILES)
        ELSE all

(* rdp-rest-proxy/proxy.js:116-122: add the new names, then drop the       *)
(* first size - MAX_PROCESSED_FILES names in insertion order.              *)
Remember(processed, newFiles) ==
    LET all == processed \o newFiles
    IN  IF Len(all) > MAX_PROCESSED_FILES
        THEN SubSeq(all, Len(all) - MAX_PROCESSED_FILES + 1, Len(all))
        ELSE all

(* rdp-rest-proxy/proxy.js:125-128 *)
RECURSIVE Chunks(_)
Chunks(s) ==
    IF s = <<>> THEN <<>>
    ELSE IF Len(s) <= BATCH_SIZE THEN <<s>>
    ELSE <<SubSeq(s, 1, BATCH_SIZE)>> \o Chunks(SubSeq(s, BATCH_SIZE + 1, Len(s)))

HasFreeGen(tk, i) == \E g \in Gens : tk[<<i, g>>].pc = "free"

FreeGen(tk, i) ==
    CHOOSE g \in Gens :
        /\ tk[<<i, g>>].pc = "free"
        /\ \A h \in Gens : h < g => tk[<<i, h>>].pc # "free"

(* Semaphore.acquire of rdp-rest-proxy/proxy.js:277-283 for the k-th task  *)
(* of a batch on a new Semaphore: a slot while current < maxConcurrent,    *)
(* the queue after that.                                                   *)
Admitted(k) == k <= MAX_CONCURRENT_REQUESTS

(* rdp-rest-proxy/proxy.js:131-136: a new Semaphore, and batch.map starts  *)
(* one task per file; each runs to its first await (lockFile).  Tasks of   *)
(* earlier batches keep the Semaphore they were started with.              *)
StartBatch(tk, batch) ==
    LET key(k) == <<batch[k], FreeGen(tk, batch[k])>>
        keys == {key(k) : k \in 1..Len(batch)}
        pos(t) == CHOOSE k \in 1..Len(batch) : key(k) = t
    IN  [task |-> [t \in TaskIds |->
                     IF t \in keys
                     THEN [FreeTask EXCEPT !.pc = IF Admitted(pos(t)) THEN "lock" ELSE "queued",
                                           !.cur = TRUE]
                     ELSE [tk[t] EXCEPT !.cur = FALSE]],
         semaphore |-> [current |-> IF Len(batch) <= MAX_CONCURRENT_REQUESTS
                                    THEN Len(batch) ELSE MAX_CONCURRENT_REQUESTS,
                        queue |-> [k \in 1..(IF Len(batch) > MAX_CONCURRENT_REQUESTS
                                             THEN Len(batch) - MAX_CONCURRENT_REQUESTS ELSE 0)
                                     |-> key(k + MAX_CONCURRENT_REQUESTS)]],
         pending |-> keys]

(* The setInterval callback of rdp-rest-proxy/proxy.js:304-318 with the    *)
(* start of processRequests (97-136): the directory is listed, the new     *)
(* names are remembered and the first batch is started.  A tick that finds *)
(* no new file changes nothing and is left out.                            *)
Tick ==
    /\ polling
    /\ ~isProcessing
    /\ LET files == {i \in Ids : reqFile[i].state # "absent"}
           newFiles == NewFiles(files, processedFiles)
           b == Chunks(newFiles)
       IN  /\ newFiles # <<>>
           /\ \A k \in 1..Len(newFiles) : HasFreeGen(task, newFiles[k])
           /\ processedFiles' = Remember(processedFiles, newFiles)
           /\ isProcessing' = TRUE
           /\ batches' = Tail(b)
           /\ LET s == StartBatch(task, Head(b))
              IN  /\ task' = s.task
                  /\ semaphore' = s.semaphore
                  /\ pending' = s.pending
           /\ hist' = [i \in Ids |->
                         IF i \in Range(newFiles)
                         THEN [hist[i] EXCEPT !.listed = TRUE,
                                              !.started = @ \/ i \in Range(Head(b))]
                         ELSE hist[i]]
    /\ UNCHANGED <<fixed, store, sub>>

ReleaseAlwaysDecrements(sem, tk) ==
    IF Len(sem.queue) > 0
    THEN [semaphore |-> [sem EXCEPT !.queue = Tail(sem.queue), !.current = sem.current - 1],
          task |-> [tk EXCEPT ![Head(sem.queue)].pc = "lock"]]
    ELSE [semaphore |-> [sem EXCEPT !.current = sem.current - 1], task |-> tk]

(* Semaphore.release of rdp-rest-proxy/proxy.js:285-292, by a task whose   *)
(* Semaphore is the running batch's: the first queued task is resumed, or  *)
(* current is decremented.  The result is the Semaphore and the tasks.     *)
Release(sem, tk) ==
    IF Len(sem.queue) > 0
    THEN [semaphore |-> [sem EXCEPT !.queue = Tail(sem.queue)],
          task |-> [tk EXCEPT ![Head(sem.queue)].pc = "lock"]]
    ELSE [semaphore |-> [sem EXCEPT !.current = sem.current - 1], task |-> tk]

EndTickStuck ==
    /\ isProcessing' = isProcessing
    /\ batches' = <<>>
    /\ pending' = {}

(* rdp-rest-proxy/proxy.js:261-266 and 315-317: processRequests returns,  *)
(* by its end or by its catch, and the finally of the interval callback    *)
(* resets the flag; batches not yet started are dropped with the call.     *)
EndTick ==
    /\ isProcessing' = FALSE
    /\ batches' = <<>>
    /\ pending' = {}

(* Semaphore.acquire of rdp-rest-proxy/proxy.js:277-283 by task t on a     *)
(* Semaphore(MAX_CONCURRENT_REQUESTS): with a slot left current is         *)
(* incremented and the call returns; without one the task's resolver is    *)
(* appended to the queue and the task waits.                               *)
Semaphore_acquire(sem, t) ==
    IF sem.current < MAX_CONCURRENT_REQUESTS
    THEN [semaphore |-> [sem EXCEPT !.current = sem.current + 1], returned |-> TRUE]
    ELSE [semaphore |-> [sem EXCEPT !.queue = Append(sem.queue, t)], returned |-> FALSE]

(* The Semaphore on its own, used by tasks that each call acquire() once   *)
(* and release() once after acquire() has returned (proxy.js:135 and 257). *)
(* A task is at "free" before its acquire(), at "queued" while it waits in *)
(* acquire(), at "lock" once acquire() has returned and at "released"      *)
(* after its release().                                                    *)
Sem_Acquire(t) ==
    /\ task[t].pc = "free"
    /\ LET r == Semaphore_acquire(semaphore, t)
       IN  /\ semaphore' = r.semaphore
           /\ task' = [task EXCEPT ![t].pc = IF r.returned THEN "lock" ELSE "queued"]
    /\ UNCHANGED <<fixed, store, sub, processedFiles, isProcessing, batches, pending, hist>>

Sem_Release(t) ==
    /\ task[t].pc = "lock"
    /\ LET r == Release(semaphore, [task EXCEPT ![t].pc = "released"])
       IN  /\ semaphore' = r.semaphore
           /\ task' = r.task
    /\ UNCHANGED <<fixed, store, sub, processedFiles, isProcessing, batches, pending, hist>>

(* rdp-rest-proxy/proxy.js:253-259 and 130-136, 261-266, 315-317: the      *)
(* finally of a task unlocks the request file and releases its slot, and   *)
(* the task's promise settles.  Promise.all rejects with the first task    *)
(* that rejects: processRequests logs and returns, the batches not yet     *)
(* started are dropped and the tasks still running are left to run.  When  *)
(* the last task of a batch fulfils, the next batch starts or the tick     *)
(* ends.                                                                   *)
Settle(t, rejected, h) ==
    /\ LET freed == [task EXCEPT ![t] = FreeTask]
           r == IF task[t].cur THEN Release(semaphore, freed)
                ELSE [semaphore |-> semaphore, task |-> freed]
       IN  IF t \notin pending
           THEN /\ task' = r.task
                /\ semaphore' = r.semaphore
                /\ UNCHANGED <<isProcessing, batches, pending>>
           ELSE IF rejected
           THEN /\ task' = r.task
                /\ semaphore' = r.semaphore
                /\ EndTick
           ELSE IF pending # {t}
           THEN /\ task' = r.task
                /\ semaphore' = r.semaphore
                /\ pending' = pending \ {t}
                /\ UNCHANGED <<isProcessing, batches>>
           ELSE IF batches # <<>>
           THEN LET s == StartBatch(r.task, Head(batches))
                IN  /\ task' = s.task
                    /\ semaphore' = s.semaphore
                    /\ pending' = s.pending
                    /\ batches' = Tail(batches)
                    /\ UNCHANGED isProcessing
           ELSE /\ task' = r.task
                /\ semaphore' = r.semaphore
                /\ EndTick
    /\ hist' = IF t \in pending /\ ~rejected /\ pending = {t} /\ batches # <<>>
               THEN [i \in Ids |->
                       IF i \in Range(Head(batches))
                       THEN [h[i] EXCEPT !.started = TRUE] ELSE h[i]]
               ELSE h

(* rdp-rest-proxy/proxy.js:253-255: unlockFile(requestFile) in the finally *)
(* of a task that had locked the request file, then the task settles.      *)
Finish(t) ==
    /\ task[t].pc = "unlockReq"
    /\ LET u == Worker_unlockFile(reqLock[t[1]])
       IN  /\ reqLock' = [reqLock EXCEPT ![t[1]] = u.lock]
           /\ Settle(t, task[t].rejected \/ u.thrown # "none",
                     [hist EXCEPT ![t[1]].enoent =
                        IF reqLock[t[1]] = "absent" THEN @ \cup {"requestLock"} ELSE @])
    /\ UNCHANGED <<fixed, reqFile, respFile, respLock, doneFile, sub, processedFiles>>

(* rdp-rest-proxy/proxy.js:137-142: lockFile(requestFile); on false the    *)
(* task returns at once, through the outer finally only.                   *)
LockRequest(t) ==
    /\ task[t].pc = "lock"
    /\ \E fails \in scenario.ioErrors :
         LET r == Worker_lockFile(reqLock[t[1]], fails)
         IN  /\ reqLock' = [reqLock EXCEPT ![t[1]] = r.lock]
             /\ IF r.ok
                THEN /\ task' = [task EXCEPT ![t].pc = "read"]
                     /\ UNCHANGED <<isProcessing, batches, pending, semaphore, hist>>
                ELSE Settle(t, FALSE, [hist EXCEPT ![t[1]].lockFailed = TRUE])
    /\ UNCHANGED <<fixed, reqFile, respFile, respLock, doneFile, sub, processedFiles>>

IsPendingAlways(status) == status # "none"

(* The test of rdp-rest-proxy/proxy.js:148 that lets a task go on. *)
IsPending(status) == status = "pending"

(* rdp-rest-proxy/proxy.js:144-150 and 227-232: readFile and JSON.parse of *)
(* the request record.  A missing or unparseable record throws into the    *)
(* catch; a status other than pending returns through the finally.         *)
ReadRequest(t) ==
    /\ task[t].pc = "read"
    /\ LET text == reqFile[t[1]]
           requestData == JSON_parse_request(text)
       IN  IF ~JsonParses(text)
           THEN /\ task' = [task EXCEPT ![t].pc = "errWrite",
                                        ![t].error = IF text.state = "absent"
                                                     THEN "ENOENT" ELSE "SyntaxError"]
                /\ hist' = hist
           ELSE IF ~IsPending(requestData.status)
           THEN /\ task' = [task EXCEPT ![t].pc = "unlockReq"]
                /\ hist' = hist
           ELSE /\ task' = [task EXCEPT ![t].pc = "call", ![t].rid = requestData.id]
                /\ hist' = [hist EXCEPT ![requestData.id].claimed = TRUE]
    /\ UNCHANGED <<fixed, store, sub, processedFiles, isProcessing, batches,
                   pending, semaphore>>

MayRetryOnceMore(retries) == retries <= MAX_RETRIES

(* The loop condition of rdp-rest-proxy/proxy.js:166 and 183. *)
MayRetry(retries) == retries < MAX_RETRIES

(* rdp-rest-proxy/proxy.js:184: the delay before the next attempt. *)
Backoff(retries) == BACKOFF_UNIT * retries

(* rdp-rest-proxy/proxy.js:166-191: one attempt of the target call.  The   *)
(* target answers with some HTTP response, or the call fails at transport  *)
(* level: lastError, retries++, then a backoff or, out of retries, the     *)
(* throw of line 190.                                                      *)
CallTarget(t) ==
    /\ task[t].pc = "call"
    /\ hist' = [hist EXCEPT ![task[t].rid].dispatches =
                   IF task[t].calls = 0 /\ @ < MaxGen THEN @ + 1 ELSE @]
    /\ \/ \E r \in scenario.responses :
            task' = [task EXCEPT ![t].pc = "lockResp", ![t].response = r,
                                 ![t].calls = @ + 1]
       \/ \E e \in scenario.errors :
            LET n == task[t].retries + 1
            IN  task' = [task EXCEPT
                    ![t].calls = @ + 1,
                    ![t].lastError = e,
                    ![t].retries = n,
                    ![t].delays = IF MayRetry(n) THEN Append(@, Backoff(n)) ELSE @,
                    ![t].error = IF MayRetry(n) THEN @ ELSE e,
                    ![t].pc = IF MayRetry(n) THEN "backoff" ELSE "errWrite"]
    /\ UNCHANGED <<fixed, store, sub, processedFiles, isProcessing, batches,
                   pending, semaphore>>

(* rdp-rest-proxy/proxy.js:184: the backoff timer fires. *)
BackoffDone(t) ==
    /\ task[t].pc = "backoff"
    /\ task' = [task EXCEPT ![t].pc = "call"]
    /\ UNCHANGED <<fixed, store, sub, processedFiles, isProcessing, batches,
                   pending, semaphore, hist>>

taskFrame == <<fixed, sub, processedFiles, isProcessing, batches, pending, semaphore>>

(* rdp-rest-proxy/proxy.js:203-206: lockFile(responseFile); false throws   *)
(* into the catch.                                                         *)
LockResponse(t) ==
    /\ task[t].pc = "lockResp"
    /\ \E fails \in scenario.ioErrors :
         LET r == Worker_lockFile(respLock[task[t].rid], fails)
         IN  /\ respLock' = [respLock EXCEPT ![task[t].rid] = r.lock]
             /\ task' = [task EXCEPT
                           ![t].pc = IF r.ok THEN "writeResp" ELSE "errWrite",
                           ![t].error = IF r.ok THEN @ ELSE "Could not lock response file"]
    /\ UNCHANGED <<taskFrame, reqFile, reqLock, respFile, doneFile, hist>>

ResponseDataMasked(response) ==
    [statusCode |-> IF response.statusCode >= HTTP_INTERNAL_ERROR
                    THEN HTTP_INTERNAL_ERROR ELSE response.statusCode,
     headers |-> response.headers, body |-> response.body, message |-> "undefined"]

(* rdp-rest-proxy/proxy.js:196-201 *)
ResponseData(response) ==
    [statusCode |-> response.statusCode, headers |-> response.headers,
     body |-> response.body, message |-> "undefined"]

(* rdp-rest-proxy/proxy.js:210: fs.writeFile(responseFile, ...) opens and  *)
(* truncates the file.                                                     *)
WriteResponseBegin(t) ==
    /\ task[t].pc = "writeResp"
    /\ respFile' = [respFile EXCEPT ![task[t].rid] = PartialResponseFile]
    /\ task' = [task EXCEPT ![t].pc = "writeRespEnd"]
    /\ UNCHANGED <<taskFrame, reqFile, reqLock, respLock, doneFile, hist>>

(* rdp-rest-proxy/proxy.js:210: the write of the response record is done. *)
WriteResponseEnd(t) ==
    /\ task[t].pc = "writeRespEnd"
    /\ LET text == JSON_stringify_response(ResponseData(task[t].response))
       IN  /\ respFile' = [respFile EXCEPT ![task[t].rid] = text]
           /\ hist' = [hist EXCEPT ![task[t].rid].written = @ \cup {text}]
    /\ task' = [task EXCEPT ![t].pc = "writeDone"]
    /\ UNCHANGED <<taskFrame, reqFile, reqLock, respLock, doneFile>>

(* History: the handler h is waiting and will start one more iteration of *)
(* its wait loop (one more lockFile call) whatever the current one finds.  *)
PollRemains(h) ==
    \/ h.pc \in {"write", "lock"}
    \/ h.pc \in {"check", "read", "unlock"} /\ ~h.found /\ h.attempts + 1 < MAX_ATTEMPTS

(* rdp-rest-proxy/proxy.js:212-213: the completion marker, an empty file. *)
WriteDone(t) ==
    /\ task[t].pc = "writeDone"
    /\ doneFile' = [doneFile EXCEPT ![task[t].rid] = TRUE]
    /\ task' = [task EXCEPT ![t].pc = "unlockResp"]
    /\ hist' = [hist EXCEPT ![task[t].rid].inTime = @ \/ PollRemains(sub[task[t].rid]),
                            ![task[t].rid].marked = TRUE]
    /\ UNCHANGED <<taskFrame, reqFile, reqLock, respFile, respLock>>

(* rdp-rest-proxy/proxy.js:219-221: unlockFile(responseFile) in the        *)
(* finally; an error thrown there would reach the catch of 227.            *)
UnlockResponse(t) ==
    /\ task[t].pc = "unlockResp"
    /\ LET u == Worker_unlockFile(respLock[task[t].rid])
       IN  /\ respLock' = [respLock EXCEPT ![task[t].rid] = u.lock]
           /\ task' = [task EXCEPT
                         ![t].pc = IF u.thrown = "none" THEN "writeReq" ELSE "errWrite",
                         ![t].error = IF u.thrown = "none" THEN @ ELSE u.thrown]
           /\ hist' = [hist EXCEPT ![task[t].rid].enoent =
                         IF respLock[task[t].rid] = "absent"
                         THEN @ \cup {"responseLock"} ELSE @]
    /\ UNCHANGED <<taskFrame, reqFile, reqLock, respFile, doneFile>>

(* rdp-rest-proxy/proxy.js:223-225: the status written after a response. *)
StatusAfterResponse == "completed"

(* rdp-rest-proxy/proxy.js:225: fs.writeFile(requestFile, ...) opens and   *)
(* truncates the request record, creating it when it is gone.  The write   *)
(* is inside the try of 144-226: when it fails with an I/O error the error *)
(* is thrown into the catch of 227.                                        *)
WriteStatusBegin(t) ==
    /\ task[t].pc = "writeReq"
    /\ \E fails \in scenario.ioErrors :
         IF fails
         THEN /\ reqFile' = reqFile
              /\ task' = [task EXCEPT ![t].pc = "errWrite", ![t].error = "EIO"]
         ELSE /\ reqFile' = [reqFile EXCEPT ![t[1]] = PartialRequestFile]
              /\ task' = [task EXCEPT ![t].pc = "writeReqEnd"]
    /\ UNCHANGED <<taskFrame, reqLock, respFile, respLock, doneFile, hist>>

(* rdp-rest-proxy/proxy.js:225: the write of the request record is done. *)
WriteStatusEnd(t) ==
    /\ task[t].pc = "writeReqEnd"
    /\ reqFile' = [reqFile EXCEPT ![t[1]] =
                     JSON_stringify_request([id |-> task[t].rid,
                                             status |-> StatusAfterResponse])]
    /\ task' = [task EXCEPT ![t].pc = "unlockReq"]
    /\ hist' = [hist EXCEPT ![t[1]].statuses = @ \cup {StatusAfterResponse}]
    /\ UNCHANGED <<taskFrame, reqLock, respFile, respLock, doneFile>>

(* rdp-rest-proxy/proxy.js:234-244: the synthetic response of the catch. *)
ErrorResponse(message) ==
    [statusCode |-> HTTP_INTERNAL_ERROR, headers |-> NoHeaders, body |-> "errobj",
     message |-> message]

(* rdp-rest-proxy/proxy.js:235, 246: fs.writeFile of responses/<file>,     *)
(* without a lock; the file is opened and truncated.                       *)
ErrorResponseBegin(t) ==
    /\ task[t].pc = "errWrite"
    /\ respFile' = [respFile EXCEPT ![t[1]] = PartialResponseFile]
    /\ task' = [task EXCEPT ![t].pc = "errWriteEnd"]
    /\ UNCHANGED <<taskFrame, reqFile, reqLock, respLock, doneFile, hist>>

(* rdp-rest-proxy/proxy.js:246: the write of the error response is done;   *)
(* the catch creates no completion marker.                                 *)
ErrorResponseEnd(t) ==
    /\ task[t].pc = "errWriteEnd"
    /\ LET text == JSON_stringify_response(ErrorResponse(task[t].error))
       IN  /\ respFile' = [respFile EXCEPT ![t[1]] = text]
           /\ hist' = [hist EXCEPT ![t[1]].written = @ \cup {text},
                                   ![t[1]].failed = TRUE]
    /\ task' = [task EXCEPT ![t].pc = "errRead"]
    /\ UNCHANGED <<taskFrame, reqFile, reqLock, respLock, doneFile>>

(* rdp-rest-proxy/proxy.js:248-249: the catch reads the request record     *)
(* again; when it is missing or unparseable JSON.parse (or readFile)       *)
(* throws out of the catch and the task rejects, after its finally.        *)
ErrorReadRequest(t) ==
    /\ task[t].pc = "errRead"
    /\ task' = [task EXCEPT ![t] =
                  IF JsonParses(reqFile[t[1]])
                  THEN [@ EXCEPT !.pc = "errStatus",
                                 !.rid = JSON_parse_request(reqFile[t[1]]).id]
                  ELSE [@ EXCEPT !.pc = "unlockReq", !.rejected = TRUE]]
    /\ UNCHANGED <<taskFrame, store, hist>>

(* rdp-rest-proxy/proxy.js:250: the status written by the catch. *)
StatusAfterError == "error"

(* rdp-rest-proxy/proxy.js:251: the request record is opened and truncated. *)
ErrorStatusBegin(t) ==
    /\ task[t].pc = "errStatus"
    /\ reqFile' = [reqFile EXCEPT ![t[1]] = PartialRequestFile]
    /\ task' = [task EXCEPT ![t].pc = "errStatusEnd"]
    /\ UNCHANGED <<taskFrame, reqLock, respFile, respLock, doneFile, hist>>

(* rdp-rest-proxy/proxy.js:251: the write of the request record is done. *)
ErrorStatusEnd(t) ==
    /\ task[t].pc = "errStatusEnd"
    /\ reqFile' = [reqFile EXCEPT ![t[1]] =
                     JSON_stringify_request([id |-> task[t].rid,
                                             status |-> StatusAfterError])]
    /\ task' = [task EXCEPT ![t].pc = "unlockReq"]
    /\ hist' = [hist EXCEPT ![t[1]].statuses = @ \cup {StatusAfterError}]
    /\ UNCHANGED <<taskFrame, reqLock, respFile, respLock, doneFile>>

TaskNoBackoff(t) ==
    \/ LockRequest(t)
    \/ ReadRequest(t)
    \/ CallTarget(t)
    \/ LockResponse(t)
    \/ WriteResponseBegin(t)
    \/ WriteResponseEnd(t)
    \/ WriteDone(t)
    \/ UnlockResponse(t)
    \/ WriteStatusBegin(t)
    \/ WriteStatusEnd(t)
    \/ ErrorResponseBegin(t)
    \/ ErrorResponseEnd(t)
    \/ ErrorReadRequest(t)
    \/ ErrorStatusBegin(t)
    \/ ErrorStatusEnd(t)
    \/ Finish(t)

Task(t) ==
    \/ TaskNoBackoff(t)
    \/ BackoffDone(t)

(* A handler of the marker protocol is waiting for its response. *)
Waiting(h) == h.pc \in {"write", "lock", "check", "read", "unlock"}

(* startPolling of rdp-rest-proxy/proxy.js:296-300 with initializeDirs of  *)
(* 77-94: the worker process starts, removes requests/ and responses/ with *)
(* all they hold (fs.rm recursive, force) and creates them empty; then the *)
(* interval timer runs.                                                    *)
StartPolling ==
    /\ ~polling
    /\ polling' = TRUE
    /\ reqFile' = [i \in Ids |-> NoRequestFile]
    /\ reqLock' = [i \in Ids |-> "absent"]
    /\ respFile' = [i \in Ids |-> NoResponseFile]
    /\ respLock' = [i \in Ids |-> "absent"]
    /\ doneFile' = [i \in Ids |-> FALSE]
    /\ UNCHANGED <<scenario, singleVars, sub, workerVars, hist>>

(* The environment: the worker process ends (it is stopped, or it exits),  *)
(* and what it held in memory is lost: processedFiles of                   *)
(* rdp-rest-proxy/proxy.js:18, isProcessing of 302 and its tasks.  The     *)
(* store stays as it is.  startPolling runs when the process is started    *)
(* again.                                                                  *)
StopWorker ==
    /\ polling
    /\ polling' = FALSE
    /\ processedFiles' = <<>>
    /\ isProcessing' = FALSE
    /\ batches' = <<>>
    /\ pending' = {}
    /\ semaphore' = [current |-> 0, queue |-> <<>>]
    /\ task' = [t \in TaskIds |-> FreeTask]
    /\ UNCHANGED <<scenario, singleVars, store, sub, hist>>

(***************************************************************************)
(* The environment: a request record that is not JSON appears in the       *)
(* requests directory (the unparseable record that the catch of            *)
(* rdp-rest-proxy/proxy.js:227-252 is written for).  Nothing in either     *)
(* role ever repairs or deletes such a record.                             *)
(***************************************************************************)
MalformedRecordAppears(i) ==
    /\ i \in stray
    /\ reqFile[i].state = "absent"
    /\ reqFile' = [reqFile EXCEPT ![i] = MalformedRequestFile]
    /\ UNCHANGED <<fixed, reqLock, respFile, respLock, doneFile, sub, workerVars, hist>>

(***************************************************************************)
(* The first submitter: src/local-rest-proxy/proxy.js, 1-240.  Its         *)
(* app.all('*') handler writes requests/<id>.json like the marker-aware    *)
(* one and waits for responses/<id>.json, with its own lockFile and        *)
(* unlockFile.  The handler of an id is kept in sub[i], at positions of    *)
(* its own.                                                                *)
(***************************************************************************)

(* lockFile of local-rest-proxy/proxy.js:41-49: fs.writeFile(lockPath, '') *)
(* creates or truncates the lock file; false on an I/O error only.         *)
Legacy_lockFile(lock, fails) ==
    IF fails THEN [ok |-> FALSE, lock |-> lock] ELSE [ok |-> TRUE, lock |-> "empty"]

(* unlockFile of local-rest-proxy/proxy.js:51-59: every error of fs.unlink *)
(* is caught and gives false.                                              *)
Legacy_unlockFile(lock) ==
    LET r == fs_unlink(lock)
    IN  [lock |-> r.lock, result |-> r.error = "none", thrown |-> "none"]

(* local-rest-proxy/proxy.js:79-105: a request arrives; the handler takes  *)
(* a fresh id and fs.writeFile opens and truncates the request record.     *)
Legacy_Receive(i) ==
    /\ i \in clients
    /\ sub[i].pc = "idle"
    /\ \E p \in scenario.paths :
         sub' = [sub EXCEPT ![i].pc = "legacyWrite", ![i].path = p]
    /\ reqFile' = [reqFile EXCEPT ![i] = PartialRequestFile]
    /\ UNCHANGED <<fixed, reqLock, respFile, respLock, doneFile, workerVars, hist>>

(* local-rest-proxy/proxy.js:93-115: the write of the request record is    *)
(* done.                                                                   *)
Legacy_WriteRequest(i) ==
    /\ sub[i].pc = "legacyWrite"
    /\ reqFile' = [reqFile EXCEPT ![i] =
                      JSON_stringify_request([id |-> i, status |-> "pending"])]
    /\ sub' = [sub EXCEPT ![i].pc = "legacyLock"]
    /\ hist' = [hist EXCEPT ![i].submitted = TRUE]
    /\ UNCHANGED <<fixed, reqLock, respFile, respLock, doneFile, workerVars>>

(* local-rest-proxy/proxy.js:152-178: the same sleep, count and 504 as     *)
(* part_000:224-250; the next iteration starts at this handler's lockFile. *)
Legacy_Sleep(h) ==
    LET s == Sleep(h)
    IN  IF s.pc = "lock" THEN [s EXCEPT !.pc = "legacyLock"] ELSE s

(* local-rest-proxy/proxy.js:117-120: one iteration of the wait loop       *)
(* starts with lockFile(responseFile).                                     *)
Legacy_PollLock(i) ==
    /\ sub[i].pc = "legacyLock"
    /\ \E fails \in scenario.ioErrors :
         LET r == Legacy_lockFile(respLock[i], fails)
             h == [sub[i] EXCEPT !.polls = sub[i].polls + 1]
         IN  /\ respLock' = [respLock EXCEPT ![i] = r.lock]
             /\ sub' = [sub EXCEPT ![i] =
                          IF r.ok THEN [h EXCEPT !.pc = "legacyRead"] ELSE Legacy_Sleep(h)]
    /\ UNCHANGED <<fixed, reqFile, reqLock, respFile, doneFile, workerVars, hist>>

(* local-rest-proxy/proxy.js:122-123: readFile and JSON.parse of the       *)
(* response record, whether or not the marker exists.  A missing or        *)
(* unparseable record throws to the finally of 138-140.                    *)
Legacy_PollRead(i) ==
    /\ sub[i].pc = "legacyRead"
    /\ IF JsonParses(respFile[i])
       THEN /\ sub' = [sub EXCEPT ![i].pc = "legacyUnlinkResponse", ![i].found = TRUE,
                                  ![i].response = JSON_parse_response(respFile[i])]
            /\ hist' = [hist EXCEPT ![i].readUnmarked = @ \/ ~doneFile[i]]
       ELSE /\ sub' = [sub EXCEPT ![i].pc = "legacyUnlock"]
            /\ hist' = hist
    /\ UNCHANGED <<fixed, store, workerVars>>

(* local-rest-proxy/proxy.js:132-133: fs.unlink(responseFile); ENOENT      *)
(* throws to the finally.  The marker is left alone.                       *)
Legacy_UnlinkResponse(i) ==
    /\ sub[i].pc = "legacyUnlinkResponse"
    /\ IF respFile[i].state = "absent"
       THEN /\ sub' = [sub EXCEPT ![i].pc = "legacyUnlock"]
            /\ UNCHANGED <<respFile, hist>>
       ELSE /\ sub' = [sub EXCEPT ![i].pc = "legacyUnlinkRequest"]
            /\ respFile' = [respFile EXCEPT ![i] = NoResponseFile]
            /\ hist' = [hist EXCEPT ![i].deleted = @ \cup {"response"}]
    /\ UNCHANGED <<fixed, reqFile, reqLock, respLock, doneFile, workerVars>>

(* local-rest-proxy/proxy.js:135-137: fs.unlink(requestFile); ENOENT       *)
(* throws to the finally.                                                  *)
Legacy_UnlinkRequest(i) ==
    /\ sub[i].pc = "legacyUnlinkRequest"
    /\ sub' = [sub EXCEPT ![i].pc = "legacyUnlock"]
    /\ IF reqFile[i].state = "absent"
       THEN UNCHANGED <<reqFile, hist>>
       ELSE /\ reqFile' = [reqFile EXCEPT ![i] = NoRequestFile]
            /\ hist' = [hist EXCEPT ![i].deleted = @ \cup {"request"}]
    /\ UNCHANGED <<fixed, reqLock, respFile, respLock, doneFile, workerVars>>

(* local-rest-proxy/proxy.js:138-150, then 152-178 (no response) or        *)
(* 180-188 (response: the reply is sent).                                  *)
Legacy_PollUnlock(i) ==
    /\ sub[i].pc = "legacyUnlock"
    /\ LET u == Legacy_unlockFile(respLock[i])
       IN  /\ respLock' = [respLock EXCEPT ![i] = u.lock]
           /\ sub' = [sub EXCEPT ![i] =
                        IF sub[i].found
                        THEN [@ EXCEPT !.pc = "done", !.reply = ReplyOf(sub[i].response),
                                       !.replies = sub[i].replies + 1]
                        ELSE Legacy_Sleep(sub[i])]
    /\ UNCHANGED <<fixed, reqFile, reqLock, respFile, doneFile, workerVars, hist>>

Legacy(i) ==
    \/ Legacy_Receive(i)
    \/ Legacy_WriteRequest(i)
    \/ Legacy_PollLock(i)
    \/ Legacy_PollRead(i)
    \/ Legacy_UnlinkResponse(i)
    \/ Legacy_UnlinkRequest(i)
    \/ Legacy_PollUnlock(i)

(***************************************************************************)
(* The single-file protocol: src/local-rest-proxy/proxy.js, 242-387 (the   *)
(* submitter) and 527-750 (the worker).  All requests live in one file,    *)
(* requests.json, and all responses in one, responses.json: an object      *)
(* keyed by request id.  Both roles read a file whole, change their copy   *)
(* and write the file whole; nothing is locked.                            *)
(***************************************************************************)
NoEntries == [i \in Ids |-> "none"]

(* initializeFiles of local-rest-proxy/proxy.js:259-278: JSON.stringify({}) *)
EmptyJsonFile == [state |-> "full", entries |-> NoEntries]

(* fs.writeFile has opened and truncated the file and not yet written it. *)
TruncatedJsonFile == [state |-> "partial", entries |-> NoEntries]

(* local-rest-proxy/proxy.js:296-308, 323-330, 605-621 and 634-645: read   *)
(* the file and parse it.  A file that is being written is empty or a      *)
(* prefix of a JSON text: the trim() test turns the first into {} and      *)
(* JSON.parse throws on the second.                                        *)
ReadJson(file) ==
    IF file.state = "full" THEN [ok |-> TRUE, entries |-> file.entries]
    ELSE [ok |-> FALSE, entries |-> NoEntries]

IdleApi ==
    [pc |-> "idle", requests |-> NoEntries, responses |-> NoEntries, response |-> "none",
     attempts |-> 0, reply |-> "none"]

(* calls: history, how often each id was sent to the target (up to 2). *)
IdleRdp == [pc |-> "idle", requests |-> NoEntries, responses |-> NoEntries, id |-> 0,
            answered |-> {}, calls |-> [i \in Ids |-> 0]]

multiVars == <<polling, store, sub, workerVars, hist>>

(* local-rest-proxy/proxy.js:281-308: the handler of app.all('/api/*')     *)
(* takes an id and reads requests.json; a read or parse error gives {}.    *)
Api_ReadRequests(i) ==
    /\ i \in clients
    /\ api[i].pc = "idle"
    /\ api' = [api EXCEPT ![i].pc = "add", ![i].requests = ReadJson(REQUESTS_FILE).entries]
    /\ UNCHANGED <<scenario, multiVars, REQUESTS_FILE, RESPONSES_FILE, rdp>>

(* local-rest-proxy/proxy.js:310-312: requests[requestId] = requestData,   *)
(* and fs.writeFile opens and truncates requests.json.                     *)
Api_AddRequestBegin(i) ==
    /\ api[i].pc = "add"
    /\ api' = [api EXCEPT ![i].pc = "addEnd", ![i].requests[i] = "request"]
    /\ REQUESTS_FILE' = TruncatedJsonFile
    /\ UNCHANGED <<scenario, multiVars, RESPONSES_FILE, rdp>>

(* local-rest-proxy/proxy.js:312: the write of requests.json is done. *)
Api_AddRequestEnd(i) ==
    /\ api[i].pc = "addEnd"
    /\ REQUESTS_FILE' = [state |-> "full", entries |-> api[i].requests]
    /\ api' = [api EXCEPT ![i].pc = "poll"]
    /\ UNCHANGED <<scenario, multiVars, RESPONSES_FILE, rdp>>

(* local-rest-proxy/proxy.js:348-357: no response in this iteration: sleep *)
(* 500 ms, attempts++, and 504 when the loop condition fails.              *)
Api_Sleep(h) ==
    IF h.attempts + 1 < API_MAX_ATTEMPTS
    THEN [h EXCEPT !.attempts = h.attempts + 1]
    ELSE [h EXCEPT !.attempts = h.attempts + 1, !.pc = "done", !.reply = "timeout"]

(* local-rest-proxy/proxy.js:320-336: one iteration of the wait loop reads *)
(* responses.json; with an entry under the id the handler keeps it and     *)
(* deletes it from its copy.                                               *)
Api_Poll(i) ==
    /\ api[i].pc = "poll"
    /\ LET r == ReadJson(RESPONSES_FILE)
       IN  api' = [api EXCEPT ![i] =
                     IF r.ok /\ r.entries[i] # "none"
                     THEN [@ EXCEPT !.pc = "take", !.response = r.entries[i],
                                    !.responses = [r.entries EXCEPT ![i] = "none"]]
                     ELSE Api_Sleep(@)]
    /\ UNCHANGED <<scenario, multiVars, REQUESTS_FILE, RESPONSES_FILE, rdp>>

(* local-rest-proxy/proxy.js:337: fs.writeFile opens and truncates         *)
(* responses.json.                                                         *)
Api_TakeResponseBegin(i) ==
    /\ api[i].pc = "take"
    /\ RESPONSES_FILE' = TruncatedJsonFile
    /\ api' = [api EXCEPT ![i].pc = "takeEnd"]
    /\ UNCHANGED <<scenario, multiVars, REQUESTS_FILE, rdp>>

(* local-rest-proxy/proxy.js:337: the write of responses.json is done. *)
Api_TakeResponseEnd(i) ==
    /\ api[i].pc = "takeEnd"
    /\ RESPONSES_FILE' = [state |-> "full", entries |-> api[i].responses]
    /\ api' = [api EXCEPT ![i].pc = "reread"]
    /\ UNCHANGED <<scenario, multiVars, REQUESTS_FILE, rdp>>

(* local-rest-proxy/proxy.js:339-346 and 355-362: requests.json is read    *)
(* again and parsed without a guard; when that throws the catch logs, the  *)
(* loop ends because response is set, and the response is sent.            *)
Api_RereadRequests(i) ==
    /\ api[i].pc = "reread"
    /\ LET r == ReadJson(REQUESTS_FILE)
       IN  api' = [api EXCEPT ![i] =
                     IF r.ok
                     THEN [@ EXCEPT !.pc = "remove",
                                    !.requests = [r.entries EXCEPT ![i] = "none"]]
                     ELSE [@ EXCEPT !.pc = "done", !.reply = api[i].response]]
    /\ UNCHANGED <<scenario, multiVars, REQUESTS_FILE, RESPONSES_FILE, rdp>>

(* local-rest-proxy/proxy.js:341-342: delete requests[requestId], and      *)
(* fs.writeFile opens and truncates requests.json.                         *)
Api_RemoveRequestBegin(i) ==
    /\ api[i].pc = "remove"
    /\ REQUESTS_FILE' = TruncatedJsonFile
    /\ api' = [api EXCEPT ![i].pc = "removeEnd"]
    /\ UNCHANGED <<scenario, multiVars, RESPONSES_FILE, rdp>>

(* local-rest-proxy/proxy.js:342 and 359-362: the write is done, the loop  *)
(* ends and the response is sent.                                          *)
Api_RemoveRequestEnd(i) ==
    /\ api[i].pc = "removeEnd"
    /\ REQUESTS_FILE' = [state |-> "full", entries |-> api[i].requests]
    /\ api' = [api EXCEPT ![i].pc = "done", ![i].reply = api[i].response]
    /\ UNCHANGED <<scenario, multiVars, RESPONSES_FILE, rdp>>

Api(i) ==
    \/ Api_ReadRequests(i)
    \/ Api_AddRequestBegin(i)
    \/ Api_AddRequestEnd(i)
    \/ Api_Poll(i)
    \/ Api_TakeResponseBegin(i)
    \/ Api_TakeResponseEnd(i)
    \/ Api_RereadRequests(i)
    \/ Api_RemoveRequestBegin(i)
    \/ Api_RemoveRequestEnd(i)

(* local-rest-proxy/proxy.js:624: the entries that are not empty objects,  *)
(* in the order of Object.entries (taken here as ascending by id).         *)
PendingRequests(entries) == Ascending({i \in Ids : entries[i] = "request"})

(* local-rest-proxy/proxy.js:730-740 and 600-631: a tick that is not       *)
(* skipped reads requests.json; without a parseable file or a pending      *)
(* request it returns, changing nothing, and is left out.                  *)
Rdp_Tick ==
    /\ rdp.pc = "idle"
    /\ LET r == ReadJson(REQUESTS_FILE)
       IN  /\ r.ok
           /\ PendingRequests(r.entries) # <<>>
           /\ rdp' = [rdp EXCEPT !.pc = "readResponses", !.requests = r.entries,
                                 !.id = Head(PendingRequests(r.entries))]
    /\ UNCHANGED <<scenario, multiVars, REQUESTS_FILE, RESPONSES_FILE, api>>

(* local-rest-proxy/proxy.js:633-645: responses.json is read; a read or    *)
(* parse error gives {}.                                                   *)
Rdp_ReadResponses ==
    /\ rdp.pc = "readResponses"
    /\ rdp' = [rdp EXCEPT !.pc = "call", !.responses = ReadJson(RESPONSES_FILE).entries]
    /\ UNCHANGED <<scenario, multiVars, REQUESTS_FILE, RESPONSES_FILE, api>>

(* local-rest-proxy/proxy.js:648-679 and 692-704: the first pending        *)
(* request is sent to the target; its answer, or the 500 of the catch, is  *)
(* put in the copy of the responses.                                       *)
Rdp_Call ==
    /\ rdp.pc = "call"
    /\ \E outcome \in {"response", "error500"} :
         rdp' = [rdp EXCEPT !.pc = "writeResponses", !.responses[rdp.id] = outcome,
                            !.calls[rdp.id] = IF @ < 2 THEN @ + 1 ELSE @]
    /\ UNCHANGED <<scenario, multiVars, REQUESTS_FILE, RESPONSES_FILE, api>>

(* local-rest-proxy/proxy.js:682 and 707: fs.writeFile opens and truncates *)
(* responses.json.                                                         *)
Rdp_WriteResponsesBegin ==
    /\ rdp.pc = "writeResponses"
    /\ RESPONSES_FILE' = TruncatedJsonFile
    /\ rdp' = [rdp EXCEPT !.pc = "writeResponsesEnd"]
    /\ UNCHANGED <<scenario, multiVars, REQUESTS_FILE, api>>

(* local-rest-proxy/proxy.js:682 and 707: the write is done. *)
Rdp_WriteResponsesEnd ==
    /\ rdp.pc = "writeResponsesEnd"
    /\ RESPONSES_FILE' = [state |-> "full", entries |-> rdp.responses]
    /\ rdp' = [rdp EXCEPT !.pc = "writeRequests", !.answered = @ \cup {rdp.id}]
    /\ UNCHANGED <<scenario, multiVars, REQUESTS_FILE, api>>

(* local-rest-proxy/proxy.js:685-687 and 710-712: requests[requestId] = {} *)
(* in the copy read at the start of the tick, and fs.writeFile opens and   *)
(* truncates requests.json.                                                *)
Rdp_WriteRequestsBegin ==
    /\ rdp.pc = "writeRequests"
    /\ REQUESTS_FILE' = TruncatedJsonFile
    /\ rdp' = [rdp EXCEPT !.pc = "writeRequestsEnd", !.requests[rdp.id] = "empty"]
    /\ UNCHANGED <<scenario, multiVars, RESPONSES_FILE, api>>

(* local-rest-proxy/proxy.js:687-691, 712-716 and 741-743: the write is    *)
(* done, the loop is left and the tick is over.                            *)
Rdp_WriteRequestsEnd ==
    /\ rdp.pc = "writeRequestsEnd"
    /\ REQUESTS_FILE' = [state |-> "full", entries |-> rdp.requests]
    /\ rdp' = [rdp EXCEPT !.pc = "idle", !.id = 0]
    /\ UNCHANGED <<scenario, multiVars, RESPONSES_FILE, api>>

Rdp ==
    \/ Rdp_Tick
    \/ Rdp_ReadResponses
    \/ Rdp_Call
    \/ Rdp_WriteResponsesBegin
    \/ Rdp_WriteResponsesEnd
    \/ Rdp_WriteRequestsBegin
    \/ Rdp_WriteRequestsEnd

(***************************************************************************)
(* Specifications.  The submitter has run its initializeDirs and its       *)
(* initializeFiles: the directories are empty and the two JSON files hold  *)
(* {}.                                                                     *)
(***************************************************************************)
Start ==
    /\ reqFile = [i \in Ids |-> NoRequestFile]
    /\ reqLock = [i \in Ids |-> "absent"]
    /\ respFile = [i \in Ids |-> NoResponseFile]
    /\ respLock = [i \in Ids |-> "absent"]
    /\ doneFile = [i \in Ids |-> FALSE]
    /\ sub = [i \in Ids |-> IdleHandler]
    /\ processedFiles = <<>>
    /\ isProcessing = FALSE
    /\ batches = <<>>
    /\ pending = {}
    /\ semaphore = [current |-> 0, queue |-> <<>>]
    /\ task = [t \in TaskIds |-> FreeTask]
    /\ hist = [i \in Ids |-> NoHistory]
    /\ REQUESTS_FILE = EmptyJsonFile
    /\ RESPONSES_FILE = EmptyJsonFile
    /\ api = [i \in Ids |-> IdleApi]
    /\ rdp = IdleRdp

Scenario(cl, st, rs, es, max, ps, io) ==
    [clients |-> cl, stray |-> st, responses |-> rs, errors |-> es,
     MAX_PROCESSED_FILES |-> max, paths |-> ps, ioErrors |-> io]

(* One client request, for a resource or for /health; the target may       *)
(* answer or fail in every way.  The worker is polling.                    *)
Init ==
    /\ Start
    /\ polling = TRUE
    /\ scenario = Scenario({1}, {}, TargetResponses, TransportErrors, HistoryLong,
                           {"/users/1", "/health"}, {FALSE})

Next ==
    \/ \E i \in Ids : Submitter(i)
    \/ Tick
    \/ \E t \in TaskIds : Task(t)

Spec == Init /\ [][Next]_vars

(* Unparseable records under the first names and one client request under *)
(* the last name, so that the client's record is listed after them.        *)
InitStray ==
    /\ Start
    /\ polling = TRUE
    /\ scenario = Scenario({NumIds}, Ids \ {NumIds}, {OkResponse}, {"ECONNREFUSED"},
                           HistoryLong, {"/users/1"}, {FALSE})

NextStray ==
    \/ \E i \in Ids : Submitter(i)
    \/ \E i \in Ids : MalformedRecordAppears(i)
    \/ Tick
    \/ \E t \in TaskIds : Task(t)

SpecStray == InitStray /\ [][NextStray]_vars

(* The submitter's handlers run on node's event loop: a timer that is due  *)
(* fires and a file operation that was started completes, so a handler     *)
(* that can take a step eventually takes one.  Nothing is assumed of the   *)
(* worker, which may be stopped or slow.                                   *)
FairSpec == Init /\ [][Next]_vars /\ \A i \in Ids : WF_vars(Submitter(i))

(* One unparseable record and one client request in the same batch, and a  *)
(* history of one name, so that a name is listed again while a task of an  *)
(* earlier tick is still running on it.  The target always answers.        *)
InitRace ==
    /\ Start
    /\ polling = TRUE
    /\ scenario = Scenario({2}, {1}, {OkResponse}, {}, HistoryShort, {"/users/1"}, {FALSE})

NextRace ==
    \/ \E i \in Ids : Submitter(i)
    \/ \E i \in Ids : MalformedRecordAppears(i)
    \/ Tick
    \/ \E t \in TaskIds : TaskNoBackoff(t)

SpecRace == InitRace /\ [][NextRace]_vars

(* One client request on a share where the write of a lock file and the    *)
(* worker's write of the completed status may fail with an I/O error.      *)
InitFaulty ==
    /\ Start
    /\ polling = TRUE
    /\ scenario = Scenario({1}, {}, {OkResponse}, {"ECONNREFUSED"}, HistoryLong,
                           {"/users/1"}, {FALSE, TRUE})

SpecFaulty == InitFaulty /\ [][Next]_vars

(* The worker's tasks run on node's event loop too: a file operation that  *)
(* was started completes, a backoff timer fires and the target call        *)
(* settles (axios is given a timeout), so a task that can take a step      *)
(* eventually takes one.                                                   *)
FairFaulty == InitFaulty /\ [][Next]_vars /\ \A t \in TaskIds : WF_vars(Task(t))

(* The submitter is serving before the worker process starts. *)
InitStartup ==
    /\ Start
    /\ polling = FALSE
    /\ scenario = Scenario({1}, {}, {OkResponse}, {"ECONNREFUSED"}, HistoryLong,
                           {"/users/1"}, {FALSE})

NextStartup ==
    \/ \E i \in Ids : Submitter(i)
    \/ StartPolling
    \/ Tick
    \/ \E t \in TaskIds : Task(t)

SpecStartup == InitStartup /\ [][NextStartup]_vars

(* The worker process may be stopped and started again while the submitter *)
(* is serving.                                                             *)
NextRestart ==
    \/ NextStartup
    \/ StopWorker

SpecRestart == InitStartup /\ [][NextRestart]_vars

(* A slow target: two client requests and an unparseable record, and a     *)
(* history of one name.  The runs looked at are those in which no target   *)
(* call has settled yet (axios waits up to 30 s for the target,            *)
(* rdp-rest-proxy/proxy.js:174), so a task that has called the target      *)
(* stays in its call and the handlers wait without finding a response, and *)
(* in which the worker's ticks list the directory only after the handlers  *)
(* have answered 504.  These are some of the program's runs, not all: a    *)
(* state reached here is a state of the program.                           *)
InitSlow ==
    /\ Start
    /\ polling = TRUE
    /\ scenario = Scenario({2, 3}, {1}, {OkResponse}, {}, HistoryShort, {"/users/1"},
                           {FALSE})

GaveUp(i) == sub[i].pc = "done" /\ sub[i].reply.kind = "timeout"

NextSlow ==
    \/ \E i \in Ids : Receive(i)
    \/ \E i \in Ids : WriteRequest(i)
    \/ \E i \in Ids : PollLock(i)
    \/ \E i \in Ids : PollCheck(i)
    \/ \E i \in Ids : PollUnlock(i)
    \/ \E i \in Ids : MalformedRecordAppears(i)
    \/ Tick /\ \A i \in clients : GaveUp(i)
    \/ \E t \in TaskIds : LockRequest(t)
    \/ \E t \in TaskIds : ReadRequest(t)
    \/ \E t \in TaskIds : ErrorResponseBegin(t)
    \/ \E t \in TaskIds : ErrorResponseEnd(t)
    \/ \E t \in TaskIds : ErrorReadRequest(t)
    \/ \E t \in TaskIds : Finish(t)

SpecSlow == InitSlow /\ [][NextSlow]_vars

(* The first submitter with the worker: one client request, and the target *)
(* may answer or fail in every way.                                        *)
InitLegacy ==
    /\ Start
    /\ polling = TRUE
    /\ scenario = Scenario({1}, {}, TargetResponses, TransportErrors, HistoryLong,
                           {"/users/1"}, {FALSE})

NextLegacy ==
    \/ \E i \in Ids : Legacy(i)
    \/ Tick
    \/ \E t \in TaskIds : Task(t)

SpecLegacy == InitLegacy /\ [][NextLegacy]_vars

(* One Semaphore(MAX_CONCURRENT_REQUESTS) used by more tasks than it has    *)
(* slots, in every order of their acquire() and release() calls.           *)
InitSemaphore ==
    /\ Start
    /\ polling = FALSE
    /\ scenario = Scenario({}, {}, {}, {}, HistoryLong, {}, {FALSE})

NextSemaphore ==
    \/ \E t \in TaskIds : Sem_Acquire(t)
    \/ \E t \in TaskIds : Sem_Release(t)

SpecSemaphore == InitSemaphore /\ [][NextSemaphore]_vars

(* The single-file protocol with two client requests. *)
InitSingle ==
    /\ Start
    /\ polling = FALSE
    /\ scenario = Scenario({1, 2}, {}, {OkResponse}, {}, HistoryLong, {"/api/users/1"},
                           {FALSE})

NextSingle ==
    \/ \E i \in Ids : Api(i)
    \/ Rdp

SpecSingle == InitSingle /\ [][NextSingle]_vars

(***************************************************************************)
(* Claims.                                                                 *)
(***************************************************************************)

(* A task holds the lock of its request file from a lockFile that returned *)
(* true until its finally has unlocked it.                                 *)
HoldsRequestLock(t) == task[t].pc \notin {"free", "queued", "lock"}

(* A task has passed the pending check: it calls the target and writes.    *)
Claimed(t) ==
    task[t].pc \in {"call", "backoff", "lockResp", "writeResp", "writeRespEnd", "writeDone",
                    "unlockResp", "writeReq", "writeReqEnd"}

ActiveTasks(i) == {g \in Gens : task[<<i, g>>].pc # "free"}

(* C1: at-most-one-claim.  Of two dispatch attempts on the same pending    *)
(* request file only one gets true from lockFile(requestFile), so no two   *)
(* tasks hold the lock of one request file at once and no two of them go   *)
(* on to call the target for it.                                           *)
C1_AtMostOneClaim ==
    \A i \in Ids : \A g, h \in Gens :
        g # h => ~(HoldsRequestLock(<<i, g>>) /\ Claimed(<<i, g>>)
                   /\ HoldsRequestLock(<<i, h>>) /\ Claimed(<<i, h>>))

(* C2: commit ordering.  A handler holds a parsed response only from a     *)
(* poll in which it saw the completion marker and the record, and what it  *)
(* parsed is a complete response record the worker wrote for that id.      *)
C2_CommitOrdering ==
    \A i \in Ids :
        sub[i].found =>
            /\ sub[i].doneExists
            /\ sub[i].responseExists
            /\ \E text \in hist[i].written : sub[i].response = JSON_parse_response(text)

C2_Witness ==
    \E i \in Ids : sub[i].found /\ sub[i].pc = "unlock" /\ sub[i].response.body = "emptystr"

(* C3: round-trip cleanup.  Once the handler has answered with the         *)
(* worker's response and finished its cleanup, and no task of the worker   *)
(* runs on the id, no request record, response record or marker of the id  *)
(* is left.                                                                *)
C3_RoundTripCleanup ==
    \A i \in Ids :
        (sub[i].pc = "done" /\ sub[i].reply.kind = "response" /\ ActiveTasks(i) = {}) =>
            /\ reqFile[i].state = "absent"
            /\ respFile[i].state = "absent"
            /\ ~doneFile[i]

(* C4: pass-through.  The reply built from a parsed response record has    *)
(* exactly the record's status code, headers and body.                     *)
C4_PassThrough ==
    \A i \in Ids :
        sub[i].reply.kind = "response" =>
            /\ sub[i].reply.status = sub[i].response.statusCode
            /\ sub[i].reply.headers = sub[i].response.headers
            /\ sub[i].reply.body = sub[i].response.body

C6_Bounded ==
    \A i \in Ids :
        /\ sub[i].polls <= MAX_ATTEMPTS
        /\ sub[i].replies <= 1
        /\ sub[i].replies = 1 <=> sub[i].reply.kind # "none"
        /\ sub[i].reply.kind \in {"none", "response", "error", "timeout"}
        /\ sub[i].reply.kind = "response" =>
               \E text \in hist[i].written : sub[i].response = JSON_parse_response(text)

C6_NoUnboundedHang ==
    /\ []C6_Bounded
    /\ \A i \in Ids : (sub[i].pc = "write") ~> (sub[i].replies = 1)

C6_Witness ==
    \E i \in Ids :
        /\ sub[i].replies = 1
        /\ sub[i].reply.kind = "timeout"
        /\ respLock[i] = "empty"
        /\ doneFile[i]

(* C7: eventual delivery.  When the worker creates the completion marker   *)
(* of an id while the handler of the id has a poll left, the handler does  *)
(* not answer 504.                                                         *)
C7_EventualDelivery ==
    \A i \in Ids : hist[i].inTime => sub[i].reply.kind # "timeout"

(* A task is in the catch because every attempt of its target call failed  *)
(* at transport level.                                                     *)
RetriesExhausted(t) ==
    /\ task[t].error # "none"
    /\ task[t].lastError # "none"
    /\ task[t].response = NoResponse

(* C8: retry exhaustion.  A task whose target call failed on every attempt *)
(* has made exactly MAX_RETRIES attempts, has waited 1000 ms and then      *)
(* 2000 ms between them and not after the last, and writes a response with *)
(* status 500 that carries the last error's message.                       *)
C8_RetryExhaustion ==
    \A t \in TaskIds :
        RetriesExhausted(t) =>
            /\ task[t].calls = MAX_RETRIES
            /\ task[t].delays = <<BACKOFF_UNIT, 2 * BACKOFF_UNIT>>
            /\ task[t].error = task[t].lastError
            /\ task[t].pc \in {"errWrite", "errWriteEnd", "errRead", "errStatus",
                               "errStatusEnd", "unlockReq"}
            /\ task[t].pc \notin {"errWrite", "errWriteEnd"} =>
                 \E text \in hist[t[1]].written :
                    /\ text.statusCode = HTTP_INTERNAL_ERROR
                    /\ text.message = task[t].lastError
            /\ task[t].pc = "errRead" =>
                 respFile[t[1]] = JSON_stringify_response(ErrorResponse(task[t].lastError))

C8_Witness ==
    \E t \in TaskIds :
        RetriesExhausted(t) /\ task[t].pc = "errRead" /\ task[t].lastError = "ETIMEDOUT"

(* C9: failures are delivered.  Once a task has resolved a request by      *)
(* failure and has finished, the synthetic response is committed in the    *)
(* form the submitter accepts: the record with its completion marker.      *)
C9_FailuresDelivered ==
    \A i \in Ids :
        (hist[i].failed /\ ActiveTasks(i) = {} /\ respFile[i].state = "full") => doneFile[i]

(* A well-formed pending request was listed by a tick that is over, no     *)
(* task was started for it, and its name is remembered as processed.       *)
Skipped(i) ==
    /\ hist[i].listed
    /\ ~hist[i].started
    /\ ~isProcessing
    /\ i \in Range(processedFiles)
    /\ JsonParses(reqFile[i])
    /\ IsPending(JSON_parse_request(reqFile[i]).status)

(* C10: isolation.  A well-formed pending request that is listed in the    *)
(* same tick as an unparseable record is not skipped: the tick starts a    *)
(* task for it.                                                            *)
C10_Isolation == \A i \in clients : ~Skipped(i)

(* The request record of an id is complete and its status is pending. *)
StillPending(i) ==
    /\ JsonParses(reqFile[i])
    /\ JSON_parse_request(reqFile[i]).status = "pending"

(* C11: skip-and-retry on lock failure.  A request for which               *)
(* lockFile(requestFile) returned false, and which is still pending when   *)
(* the tick is over and no task runs on it, is listed as new by the next   *)
(* tick: its name is not held back as already processed.                   *)
C11_SkipAndRetry ==
    \A i \in Ids :
        (hist[i].lockFailed /\ ~isProcessing /\ ActiveTasks(i) = {} /\ StillPending(i)) =>
            i \notin Range(processedFiles)

(* The handler of an id is between a lockFile(responseFile) that returned  *)
(* true and its unlockFile.                                                *)
SubmitterHoldsResponseLock(i) == sub[i].pc \in {"check", "read", "unlock"}

(* A task is between its lockFile(responseFile) that returned true and its *)
(* unlockFile.                                                             *)
WorkerHoldsResponseLock(i) ==
    \E g \in Gens :
        task[<<i, g>>].pc \in {"writeResp", "writeRespEnd", "writeDone", "unlockResp"}

(* C12: mutual exclusion on the response lock.  The handler and a task     *)
(* never hold the lock of the same response record at once, and while      *)
(* either holds it the lock marker exists.                                 *)
C12_ResponseLockExclusive ==
    \A i \in Ids :
        /\ ~(SubmitterHoldsResponseLock(i) /\ WorkerHoldsResponseLock(i))
        /\ SubmitterHoldsResponseLock(i) => respLock[i] # "absent"
        /\ WorkerHoldsResponseLock(i) => respLock[i] # "absent"

StatusEnum == {"pending", "claimed", "completed", "failed"}

(* C13: request status.  The status of every complete request record is    *)
(* one of pending, claimed, completed, failed.                             *)
C13_StatusEnum ==
    \A i \in Ids : reqFile[i].state = "full" => reqFile[i].status \in StatusEnum

(* The tasks whose target call is in flight: started and not settled, the  *)
(* waits between attempts included.                                        *)
InFlight == {t \in TaskIds : task[t].pc \in {"call", "backoff"}}

(* C14: bounded concurrency.  At most MAX_CONCURRENT_REQUESTS target calls *)
(* are in flight.                                                          *)
C14_BoundedConcurrency == Cardinality(InFlight) <= MAX_CONCURRENT_REQUESTS

(* C15: deletion only after resolution.  While the handler of an id waits  *)
(* for its response, the request record it has written is not deleted.     *)
C15_DeletionAfterResolution ==
    \A i \in Ids :
        (hist[i].submitted /\ Waiting(sub[i])) => reqFile[i].state # "absent"

(* C16: cleanup on timeout.  When the handler of an id has answered 504,   *)
(* no request record of the id is left.                                    *)
C16_CleanupOnTimeout ==
    \A i \in Ids :
        (sub[i].pc = "done" /\ sub[i].reply.kind = "timeout") => reqFile[i].state = "absent"

C18_LockDiscipline ==
    \A i \in Ids :
        sub[i].pc = "cleanup" =>
            /\ ("response" \in sub[i].unlinks /\ respFile[i].state # "absent") =>
                   respLock[i] = "pid"
            /\ ("request" \in sub[i].unlinks /\ reqFile[i].state # "absent") =>
                   reqLock[i] = "pid"

(* The target has answered the task's call with an HTTP response. *)
Answered(t) == task[t].response # NoResponse

(* C19: an HTTP error status is a valid response.  Once the target has     *)
(* answered a task with any status, the task makes no further attempt and  *)
(* does not enter the catch; it writes a response record with that status  *)
(* code and body, then the completion marker, then the status completed.   *)
C19_HttpErrorIsResponse ==
    \A t \in TaskIds :
        Answered(t) =>
            LET i == task[t].rid
                r == task[t].response
            IN  /\ task[t].calls = task[t].retries + 1
                /\ task[t].error = "none"
                /\ task[t].pc \in {"lockResp", "writeResp", "writeRespEnd", "writeDone",
                                   "unlockResp", "writeReq", "writeReqEnd", "unlockReq"}
                /\ task[t].pc = "writeDone" =>
                     /\ respFile[i].state = "full"
                     /\ respFile[i].statusCode = r.statusCode
                     /\ respFile[i].body = r.body
                     /\ ~doneFile[i]
                /\ task[t].pc \in {"unlockResp", "writeReq", "writeReqEnd", "unlockReq"} =>
                     /\ hist[i].marked
                     /\ \E text \in hist[i].written :
                          text.statusCode = r.statusCode /\ text.body = r.body
                /\ task[t].pc = "unlockReq" => hist[i].statuses = {"completed"}

C19_Witness ==
    \E t \in TaskIds :
        /\ Answered(t)
        /\ task[t].pc = "unlockReq"
        /\ task[t].response.statusCode = HTTP_UNAVAILABLE
        /\ task[t].retries = 2

(* C20: the health check is local.  A request for /health is answered by   *)
(* the health route, 200 {status: 'ok'}, and creates no request record.    *)
C20_HealthIsLocal ==
    \A i \in Ids :
        sub[i].path = "/health" =>
            /\ reqFile[i].state = "absent"
            /\ sub[i].reply = HealthReply

(* C21: the single-file protocol.  Once the handler of an id has sent the  *)
(* response and the tick that answered the id is over, requests.json and   *)
(* responses.json hold no entry under the id.                              *)
C21_SingleFileCleanup ==
    \A i \in Ids :
        (/\ api[i].pc = "done"
         /\ api[i].reply \in {"response", "error500"}
         /\ i \in rdp.answered
         /\ rdp.pc = "idle") =>
            /\ REQUESTS_FILE.state = "full" => REQUESTS_FILE.entries[i] = "none"
            /\ RESPONSES_FILE.state = "full" => RESPONSES_FILE.entries[i] = "none"

(* C23: the happens-before chain of an id.  No step of submit, claim,      *)
(* target call, response written, marker created, response read, records   *)
(* deleted has occurred for an id unless every earlier step has.           *)
C23_HappensBefore ==
    \A i \in Ids :
        /\ hist[i].claimed => hist[i].submitted
        /\ hist[i].dispatches > 0 => hist[i].claimed
        /\ hist[i].written # {} => hist[i].dispatches > 0
        /\ hist[i].marked => hist[i].written # {}
        /\ sub[i].found => hist[i].marked
        /\ hist[i].deleted # {} => sub[i].found

(* s is what is left of u when names are dropped from its front. *)
IsSuffix(s, u) ==
    /\ Len(s) <= Len(u)
    /\ s = SubSeq(u, Len(u) - Len(s) + 1, Len(u))

(* C24: bounded history.  Every step leaves at most MAX_PROCESSED_FILES    *)
(* names in processedFiles, each once; a step that changes it adds the     *)
(* names listed as new and drops names only from the front, the oldest,    *)
(* and only as many as exceed the bound.                                   *)
C24_BoundedHistory ==
    [][LET added == Ascending({i \in Ids : reqFile[i].state # "absent"}
                              \ Range(processedFiles))
           all == processedFiles \o added
       IN  /\ Len(processedFiles') <= MAX_PROCESSED_FILES
           /\ Cardinality(Range(processedFiles')) = Len(processedFiles')
           /\ processedFiles' # processedFiles =>
                /\ IsSuffix(processedFiles', all)
                /\ Len(processedFiles') =
                     IF Len(all) <= MAX_PROCESSED_FILES THEN Len(all)
                     ELSE MAX_PROCESSED_FILES]_vars

C24_Witness ==
    /\ processedFiles = <<1>>
    /\ hist[1].listed
    /\ hist[2].listed
    /\ Len(processedFiles) = MAX_PROCESSED_FILES

(* C25: the history is only a hint.  Whatever processedFiles holds or has  *)
(* dropped, at most one task of the worker calls the target for an id.     *)
C25_AtMostOneDispatch == \A i \in Ids : hist[i].dispatches <= 1

(* C26: a record is visible only when complete.  No task of the worker     *)
(* fails to parse a request record: the only records here are the ones the *)
(* handlers write.                                                         *)
C26_NoPartialRead == \A t \in TaskIds : task[t].error # "SyntaxError"

(* A task has read a status other than pending and is about to unlock. *)
NonPendingSkip(t) ==
    /\ task[t].pc = "unlockReq"
    /\ task[t].rid = 0
    /\ task[t].error = "none"

(* C27: benign race.  A task that reads a complete record whose status is  *)
(* not pending goes to its finally and changes nothing in the store; from  *)
(* there it only removes the request lock and ends, without a target call. *)
C27_BenignRace ==
    [][\A t \in TaskIds :
         /\ (/\ task[t].pc = "read"
             /\ task'[t].pc # "read"
             /\ JsonParses(reqFile[t[1]])
             /\ JSON_parse_request(reqFile[t[1]]).status # "pending") =>
                /\ task'[t] = [task[t] EXCEPT !.pc = "unlockReq"]
                /\ task'[t].calls = 0
                /\ store' = store
         /\ (NonPendingSkip(t) /\ task'[t].pc # "unlockReq") =>
                /\ task'[t] = FreeTask
                /\ task[t].calls = 0
                /\ <<reqFile, respFile, respLock, doneFile>>' =
                       <<reqFile, respFile, respLock, doneFile>>
                /\ reqLock' = [reqLock EXCEPT ![t[1]] = "absent"]]_vars

C27_Witness ==
    \E t \in TaskIds :
        /\ NonPendingSkip(t)
        /\ JsonParses(reqFile[t[1]])
        /\ JSON_parse_request(reqFile[t[1]]).status = "completed"

(* C28: terminal status before release.  A task that called the target for *)
(* a request and is about to release the request lock has written the      *)
(* status completed or failed.                                             *)
C28_TerminalBeforeRelease ==
    \A t \in TaskIds :
        (task[t].pc = "unlockReq" /\ task[t].calls > 0) =>
            hist[t[1]].statuses \cap {"completed", "failed"} # {}

(* C29: lock contention is never an error.  No task enters the catch       *)
(* because a lockFile returned false.                                      *)
C29_ContentionNotError ==
    \A t \in TaskIds : task[t].error # "Could not lock response file"

(* C30: the polling loop is never blocked.  A tick never waits on nothing, *)
(* and every tick that has set isProcessing ends with it reset, whatever   *)
(* failed in it.                                                           *)
C30_LoopNeverBlocked ==
    /\ [](isProcessing => pending # {})
    /\ isProcessing ~> ~isProcessing

C30_Witness ==
    /\ ~isProcessing
    /\ pending = {}
    /\ \E i \in Ids :
         /\ hist[i].failed
         /\ ActiveTasks(i) = {}
         /\ "error" \in hist[i].statuses
         /\ i \in Range(processedFiles)

(* C31: the marker is the only read signal, in the first submitter.  The   *)
(* handler reads a response record only while its completion marker        *)
(* exists, and when it has deleted the response record the marker is       *)
(* deleted too.                                                            *)
C31_MarkerOnlySignal ==
    \A i \in Ids :
        /\ ~hist[i].readUnmarked
        /\ (sub[i].pc = "done" /\ "response" \in hist[i].deleted /\ ActiveTasks(i) = {}) =>
               ~doneFile[i]

(* A step of the submitter's handlers. *)
SubmitterStep == \E i \in Ids : Submitter(i)

(* A step of the worker: its startup, a tick or a step of a task. *)
WorkerStep ==
    \/ StartPolling
    \/ Tick
    \/ \E t \in TaskIds : Task(t)

(* C32: ownership of records.  A step of the submitter leaves a complete   *)
(* request record as it is or deletes it, and creates no response record   *)
(* and no marker; a step of the worker deletes no response record and no   *)
(* marker.                                                                 *)
C32_Ownership ==
    [][\A i \in Ids :
         /\ SubmitterStep =>
               /\ reqFile[i].state = "full" => reqFile'[i] \in {reqFile[i], NoRequestFile}
               /\ respFile'[i] \in {respFile[i], NoResponseFile}
               /\ doneFile'[i] => doneFile[i]
         /\ WorkerStep =>
               /\ respFile[i].state # "absent" => respFile'[i].state # "absent"
               /\ doneFile[i] => doneFile'[i]]_vars

(* C33: committed responses are immutable.  While the completion marker of *)
(* an id exists, no step of the worker changes the response record of the  *)
(* id.                                                                     *)
C33_CommittedImmutable ==
    [][\A i \in Ids : (doneFile[i] /\ WorkerStep) => respFile'[i] = respFile[i]]_vars

(* C34: ticks do not overlap.  When a tick starts processRequests, no task *)
(* that an earlier tick started is still running.                          *)
C34_TicksDoNotOverlap ==
    [][(~isProcessing /\ isProcessing') => \A t \in TaskIds : task[t].pc = "free"]_vars

(* C35: no leaked locks.  A lock marker of a request record exists only    *)
(* while a task of the worker is between its lockFile(requestFile) and the *)
(* end of its finally, and a lock marker of a response record only while   *)
(* a task or the handler is between its lockFile(responseFile) and its     *)
(* unlockFile: none is left when a task has ended, while the handler       *)
(* sleeps between polls with no task at the record, or after it returned.  *)
C35_NoLeakedLocks ==
    \A i \in Ids :
        /\ reqLock[i] # "absent" => \E g \in Gens : HoldsRequestLock(<<i, g>>)
        /\ respLock[i] # "absent" =>
               SubmitterHoldsResponseLock(i) \/ WorkerHoldsResponseLock(i)

C35_Witness ==
    /\ \A t \in TaskIds : task[t].pc = "free"
    /\ \E i \in Ids : hist[i].failed /\ "requestLock" \notin hist[i].enoent
    /\ \E i \in Ids :
         /\ sub[i].pc = "done"
         /\ sub[i].reply.kind = "response"
         /\ "completed" \in hist[i].statuses
    /\ \A i \in Ids : reqLock[i] = "absent" /\ respLock[i] = "absent"

(* C36: single-file protocol, no lost submission.  From the end of a       *)
(* handler's write of its entry until the worker has written a response    *)
(* for the id, every complete requests.json holds the entry with its       *)
(* content.                                                                *)
C36_NoLostSubmission ==
    \A i \in Ids :
        (api[i].pc = "poll" /\ i \notin rdp.answered /\ REQUESTS_FILE.state = "full") =>
            REQUESTS_FILE.entries[i] = "request"

(* C37: single-file protocol, at-most-once forwarding.  The worker sends   *)
(* each id to the target at most once.                                     *)
C37_AtMostOnceForwarding == \A i \in Ids : rdp.calls[i] <= 1

(* The tasks that have returned from acquire() and not yet called          *)
(* release().                                                              *)
SlotHolders == {t \in TaskIds : task[t].pc = "lock"}

(* C38: the Semaphore invariant.  At most MAX_CONCURRENT_REQUESTS tasks    *)
(* hold a slot, current stays within 0..MAX_CONCURRENT_REQUESTS, and when  *)
(* every task has released current is 0 and the queue is empty.            *)
C38_SemaphoreInvariant ==
    /\ Cardinality(SlotHolders) <= MAX_CONCURRENT_REQUESTS
    /\ semaphore.current \in 0..MAX_CONCURRENT_REQUESTS
    /\ semaphore.current = Cardinality(SlotHolders)
    /\ Range(semaphore.queue) = {t \in TaskIds : task[t].pc = "queued"}
    /\ (\A t \in TaskIds : task[t].pc = "released") =>
           /\ semaphore.current = 0
           /\ semaphore.queue = <<>>

C38_Witness ==
    /\ \A t \in TaskIds : task[t].pc = "released"
    /\ Cardinality(TaskIds) > MAX_CONCURRENT_REQUESTS
    /\ semaphore.current = 0

====
